---- MODULE Spec2Model ----
(***************************************************************************)
(* Dispatch layer of WeJH-Go: the funnel dispatcher FetchHandleOfPost (two *)
(* revisions of the same file, src/unnamed/part_000 = "legacy" with the    *)
(* 413 retry loop and no recover, src/unnamed/part_001 = "current"), the   *)
(* per-node call wrapper singleHostRequest and the randomLB node pools of  *)
(* src/app/utils/circuitBreaker/loadbalance.go with the calls made on them *)
(* (Add, Remove, List, ReBalance, Pick). The circuit breaker, whose source *)
(* is not part of these files, follows the state machine of the design     *)
(* document (Closed, Open, HalfOpen).                                      *)
(***************************************************************************)
EXTENDS Integers, Sequences, FiniteSets, TLC

\* ------------------------------------------------------------------ bounds
\* widest fan-out explored: the most candidates of one hedged Dispatch
MaxCand == 2
\* longest pool explored: Add is not taken on a pool of this length
MaxApis == 2
\* N, the consecutive failures that open a node's breaker
FailThreshold == 2

\* ------------------------------------------------------- program constants
funnelCodeSuccess == 200
funnelCodeInvalidArgs == 410
funnelCodeWrongPassword == 412
funnelCodeCaptchaFailed == 413
funnelCodeSessionExpired == 414
funnelCodeOauthError == 415
funnelCodeOAuthNotUpdate == 416
\* part_000: for i := 0; i < 5; i++
MaxAttempts == 5

\* node addresses the pools are built from
Addr == {"A", "B"}
\* "" is the empty host a caller may pass, "C" a node that is in no pool
NoHost == ""
Hosts == Addr \cup {"C", NoHost}
\* the two pools together are constructed with at most one entry per address
\* (an address may still repeat within a pool)
MaxPool == Cardinality(Addr)
LoginTypes == {"OAUTH", "ZF", "Unknown"}
Revisions == {"legacy", "current"}
\* envelope codes a node answers with
Codes == {funnelCodeSuccess, funnelCodeInvalidArgs, funnelCodeWrongPassword,
          funnelCodeCaptchaFailed, funnelCodeOAuthNotUpdate}

\* replies to the single-node call: the whole funnel enumeration and two codes
\* outside it (0 is what a reply without a code field decodes to)
SingleCodes == Codes \cup {funnelCodeSessionExpired, funnelCodeOauthError, 0, 500}

\* replies and login types of the fair specification: the code that ends the
\* race and the code the legacy wrapper retries (a failure it does not retry is
\* PostFormError); one login type per pool
FairCodes == {funnelCodeSuccess, funnelCodeCaptchaFailed}
FairLoginTypes == {"OAUTH", "ZF"}

\* the candidate slots of one hedged Dispatch
Slots == 1..MaxCand

RECURSIVE SeqsUpTo(_, _)
SeqsUpTo(S, n) ==
    IF n = 0 THEN {<<>>}
    ELSE LET shorter == SeqsUpTo(S, n - 1)
         IN  shorter \cup {Append(s, x) : s \in {t \in shorter : Len(t) = n - 1}, x \in S}

VARIABLES
    rev,        \* which revision of the dispatcher file is built
    zfLB,       \* LoadBalance.zfLB    : [Api : Seq(Addr), Size : Nat]
    oauthLB,    \* LoadBalance.oauthLB : [Api : Seq(Addr), Size : Nat]
    dpc,        \* position of FetchHandleOfPost (the consuming goroutine)
    zfFlag,     \* strings.Contains(api, "zf")
    loginType,  \* form.Get("type")
    host,       \* the caller-supplied (preferred) host
    snapshot,   \* what LB.List(loginType) returned
    hosts,      \* the candidate list after the preferred-host step
    bpc,        \* position of each hedge branch (slot 1 also serves the single-node call)
    attempt,    \* loop index i of singleHostRequest (legacy revision)
    calls,      \* outbound PostForm calls issued by the single-node call
    issued,     \* whether each hedge branch has issued a PostForm call
    res,        \* what singleHostRequest returned in each slot
    cancelled,  \* ctx.Done() is closed
    resultCh,   \* buffered channel contents
    closed,     \* resultCh is closed
    wg,         \* sync.WaitGroup counter
    cpc,        \* position of the channel-closing goroutine
    firstErr,   \* the consumer's firstErr
    consumed,   \* slots whose result the consuming loop has taken
    winner,     \* slot whose terminal result ended the loop (0: none)
    nFail,      \* CB.Fail calls caused by each slot
    nSucc,      \* CB.Success calls caused by each slot
    ret,        \* what FetchHandleOfPost returned: [data, err]
    lastOp,     \* the last Add/Remove/List/ReBalance call and the pools it found
    ppc,        \* position of a LoadBalance.Pick call
    pickArgs,   \* its arguments: [zfFlag, oauthFlag]
    oauthAvailable, \* its local oauthAvailable
    zfAvailable,    \* its local zfAvailable
    pickRet,    \* what LoadBalance.Pick returned: [api, lt, err]
    cbStatus,   \* breaker status of each node and login type
    cbCount     \* its consecutive-failure count

vars == <<rev, zfLB, oauthLB, dpc, zfFlag, loginType, host, snapshot, hosts, bpc,
          attempt, calls, issued, res, cancelled, resultCh, closed, wg, cpc, firstErr,
          consumed, winner, nFail, nSucc, ret, lastOp, ppc, pickArgs, oauthAvailable,
          zfAvailable, pickRet, cbStatus, cbCount>>

pools == <<zfLB, oauthLB>>
pickVars == <<ppc, pickArgs, oauthAvailable, zfAvailable, pickRet>>
\* the LoadBalance and the calls made on it from outside the dispatcher
cbVars == <<cbStatus, cbCount>>
lbVars == <<pools, lastOp, pickVars, cbVars>>
reqVars == <<zfFlag, loginType, host, snapshot, hosts>>
chanVars == <<resultCh, closed>>
markVars == <<nFail, nSucc>>
callVars == <<calls, issued>>
consumerVars == <<firstErr, consumed, winner, ret>>
\* everything FetchHandleOfPost and its goroutines own
dispVars == <<rev, dpc, reqVars, bpc, attempt, callVars, res, cancelled, chanVars, wg, cpc,
              markVars, consumerVars>>

\* ------------------------------------------------------------- node pools
\* newRandomLB(apis): &randomLB{Api: apis, Size: len(apis)}
newRandomLB(apis) == [Api |-> apis, Size |-> Len(apis)]

\* randomLB.list: nil when Size == 0, else a copy of the first Size entries
list(b) == IF b.Size = 0 THEN <<>> ELSE SubSeq(b.Api, 1, b.Size)

\* LoadBalance.List: the OAuth pool for Oauth, the ZF pool for anything else
List(lt) == IF lt = "OAUTH" THEN list(oauthLB) ELSE list(zfLB)

\* the pool a login type selects: Oauth the OAuth pool, anything else the ZF pool
PoolOf(lt) == IF lt = "OAUTH" THEN oauthLB ELSE zfLB

\* what indexing past the end of a slice gives
OutOfRange == "panic: index out of range"

\* b.Api[n], n counted from 0
ApiAt(b, n) == IF n + 1 <= Len(b.Api) THEN b.Api[n + 1] ELSE OutOfRange

\* the values fastrand.Intn(b.Size) can take where randomLB.Pick draws one
PickRange(b) == IF b.Size < 2 THEN {0} ELSE 0..(b.Size - 1)

\* randomLB.Pick, n being what fastrand.Intn(b.Size) returned
Pick(b, n) ==
    IF b.Size = 0 THEN NoHost
    ELSE IF b.Size = 1 THEN ApiAt(b, 0)
    ELSE ApiAt(b, n)

\* randomLB.isAvailable
isAvailable(b) == b.Size # 0

\* randomLB.ReBalance: b.Api, b.Size = apis, len(apis)
ReBalance(b, apis) == [Api |-> apis, Size |-> Len(apis)]

\* randomLB.Add (one address): b.Api = append(b.Api, api); b.Size = len(b.Api)
Add(b, api) ==
    LET apis == Append(b.Api, api)
    IN  [Api |-> apis, Size |-> Len(apis)]

\* index of the first element equal to h, 0 when absent (idx == -1 in the code)
IndexOf(s, h) ==
    IF \E i \in 1..Len(s) : s[i] = h
    THEN CHOOSE i \in 1..Len(s) : s[i] = h /\ \A j \in 1..(i - 1) : s[j] # h
    ELSE 0

\* s without its element at position i
RemoveAt(s, i) == SubSeq(s, 1, i - 1) \o SubSeq(s, i + 1, Len(s))

\* mutant: when the loop finds nothing the last entry is cut off
RemoveDropsLast(b, api) ==
    LET i == IndexOf(b.Api, api)
        apis == IF i # 0 THEN RemoveAt(b.Api, i)
                ELSE IF b.Api = <<>> THEN <<>> ELSE SubSeq(b.Api, 1, Len(b.Api) - 1)
    IN  [Api |-> apis, Size |-> Len(apis)]

\* mutant: the entry is cut out but b.Size is not set again
RemoveKeepsSize(b, api) ==
    LET i == IndexOf(b.Api, api)
    IN  [Api |-> IF i = 0 THEN b.Api ELSE RemoveAt(b.Api, i), Size |-> b.Size]

\* randomLB.Remove: cut out the first entry equal to api, if any; b.Size = len(b.Api)
Remove(b, api) ==
    LET i == IndexOf(b.Api, api)
        apis == IF i = 0 THEN b.Api ELSE RemoveAt(b.Api, i)
    IN  [Api |-> apis, Size |-> Len(apis)]

\* part_001: hosts[0], hosts[idx] = hosts[idx], hosts[0]
SwapToFront(s, i) == [k \in 1..Len(s) |-> IF k = 1 THEN s[i] ELSE IF k = i THEN s[1] ELSE s[k]]

\* part_000: append([]string{host}, append(hosts[:idx], hosts[idx+1:]...)...)
MoveToFront(s, i) == <<s[i]>> \o RemoveAt(s, i)

\* mutant: the preferred host is prepended without looking for it in the list
PreferHostAlwaysPrepends(r, list0, h) ==
    IF h = NoHost THEN list0 ELSE <<h>> \o list0

\* the preferred-host step of FetchHandleOfPost
PreferHost(r, list0, h) ==
    IF h = NoHost THEN list0
    ELSE LET idx == IndexOf(list0, h)
         IN  IF idx = 0 THEN <<h>> \o list0
             ELSE IF idx > 1
                  THEN IF r = "current" THEN SwapToFront(list0, idx) ELSE MoveToFront(list0, idx)
                  ELSE list0

\* mutant: 413 handled like the domain errors (node healthy, race over)
IsTerminalWith413(code) ==
    code \in {funnelCodeSuccess, funnelCodeWrongPassword, funnelCodeOAuthNotUpdate,
              funnelCodeCaptchaFailed}

\* the codes that end the race
IsTerminal(code) ==
    code \in {funnelCodeSuccess, funnelCodeWrongPassword, funnelCodeOAuthNotUpdate}

\* mutant: the two domain errors are exchanged
CodeOutcomeSwapped(code, i) ==
    IF code = funnelCodeSuccess THEN [data |-> i, err |-> "nil"]
    ELSE IF code = funnelCodeWrongPassword THEN [data |-> 0, err |-> "OAuthNotUpdate"]
    ELSE IF code = funnelCodeOAuthNotUpdate THEN [data |-> 0, err |-> "NoThatPasswordOrWrong"]
    ELSE [data |-> 0, err |-> "ServerError"]

\* the (data, err) a terminal or single-node code maps to; data of slot i is i
CodeOutcome(code, i) ==
    IF code = funnelCodeSuccess THEN [data |-> i, err |-> "nil"]
    ELSE IF code = funnelCodeWrongPassword THEN [data |-> 0, err |-> "NoThatPasswordOrWrong"]
    ELSE IF code = funnelCodeOAuthNotUpdate THEN [data |-> 0, err |-> "OAuthNotUpdate"]
    ELSE [data |-> 0, err |-> "ServerError"]

\* legacy singleHostRequest loops again on 413 while i < 5
Retries(r, code, i) ==
    r = "legacy" /\ code = funnelCodeCaptchaFailed /\ i + 1 < MaxAttempts

\* the consumer skips a context.Canceled result in the current revision only
SkipsCanceled(r, e) == r = "current" /\ e = "Canceled"

\* resultCh := make(chan result, len(hosts))
ChanCap(hs) == Len(hs)

NoRes == [err |-> "none", code |-> 0]
NoRet == [data |-> 0, err |-> "none"]
NoOp == [op |-> "none", lt |-> "Unknown", api |-> NoHost, apis |-> <<>>,
         zfLB |-> newRandomLB(<<>>), oauthLB |-> newRandomLB(<<>>)]
NoPick == [api |-> NoHost, lt |-> "Unknown", err |-> "none"]
NoArgs == [zfFlag |-> FALSE, oauthFlag |-> FALSE]
\* breaker state is keyed by node and login type
CBKeys == Addr \X FairLoginTypes

\* ------------------------------------------------------------------- Init
Init ==
    /\ rev \in Revisions
    /\ zfLB \in {newRandomLB(s) : s \in SeqsUpTo(Addr, MaxPool)}
    /\ oauthLB \in {newRandomLB(s) : s \in SeqsUpTo(Addr, MaxPool)}
    /\ zfLB.Size + oauthLB.Size <= MaxPool
    /\ dpc = "idle"
    /\ zfFlag = FALSE
    /\ loginType = "Unknown"
    /\ host = NoHost
    /\ snapshot = <<>>
    /\ hosts = <<>>
    /\ bpc = [i \in Slots |-> "none"]
    /\ attempt = [i \in Slots |-> 0]
    /\ calls = 0
    /\ issued = [i \in Slots |-> FALSE]
    /\ res = [i \in Slots |-> NoRes]
    /\ cancelled = FALSE
    /\ resultCh = <<>>
    /\ closed = FALSE
    /\ wg = 0
    /\ cpc = "none"
    /\ firstErr = "nil"
    /\ consumed = {}
    /\ winner = 0
    /\ nFail = [i \in Slots |-> 0]
    /\ nSucc = [i \in Slots |-> 0]
    /\ ret = NoRet
    /\ lastOp = NoOp
    /\ ppc = "idle"
    /\ pickArgs = NoArgs
    /\ oauthAvailable = FALSE
    /\ zfAvailable = FALSE
    /\ pickRet = NoPick
    /\ cbStatus = [k \in CBKeys |-> "Closed"]
    /\ cbCount = [k \in CBKeys |-> 0]

\* ---------------------------------------------------------------- actions
\* ctx.Done() as singleHostRequest sees it: context.Background() in single-node mode
ctxDone == zfFlag /\ cancelled

\* entry of FetchHandleOfPost, non-ZF endpoint: one singleHostRequest on the caller's host
FetchHandleOfPostSingle(lt, h) ==
    /\ dpc = "idle"
    /\ zfFlag' = FALSE
    /\ loginType' = lt
    /\ host' = h
    /\ dpc' = "single"
    /\ bpc' = [bpc EXCEPT ![1] = "req"]
    /\ UNCHANGED <<rev, lbVars, snapshot, hosts, attempt, callVars, res, cancelled, chanVars,
                   wg, cpc, markVars, consumerVars>>

\* entry of FetchHandleOfPost, ZF endpoint: List, preferred-host step, empty check, fan-out
FetchHandleOfPostHedge(lt, h) ==
    /\ dpc = "idle"
    /\ zfFlag' = TRUE
    /\ loginType' = lt
    /\ host' = h
    /\ snapshot' = List(lt)
    /\ hosts' = PreferHost(rev, List(lt), h)
    /\ Len(hosts') <= MaxCand
    /\ IF Len(hosts') = 0
       THEN /\ ret' = [data |-> 0, err |-> "NoApiAvailable"]
            /\ dpc' = "returned"
            /\ UNCHANGED <<bpc, wg, cpc>>
       ELSE /\ bpc' = [i \in Slots |-> IF i <= Len(hosts') THEN "start" ELSE "none"]
            /\ wg' = Len(hosts')
            /\ cpc' = "wait"
            /\ dpc' = "consume"
            /\ ret' = ret
    /\ UNCHANGED <<rev, lbVars, attempt, callVars, res, cancelled, chanVars, markVars,
                   firstErr, consumed, winner>>

\* hedge branch: select { case <-ctx.Done(): return; default: } before the call
BranchPreCheck(i) ==
    /\ bpc[i] = "start"
    /\ IF cancelled
       THEN /\ bpc' = [bpc EXCEPT ![i] = "done"]
            /\ wg' = wg - 1
       ELSE /\ bpc' = [bpc EXCEPT ![i] = "req"]
            /\ wg' = wg
    /\ UNCHANGED <<rev, lbVars, dpc, reqVars, attempt, callVars, res, cancelled, chanVars,
                   cpc, markVars, consumerVars>>

\* mutant: PostForm is issued without looking at ctx.Done() first
singleHostRequestNoCtxCheck(i) ==
    /\ bpc[i] = "req"
    /\ calls' = IF zfFlag THEN calls ELSE calls + 1
    /\ issued' = [issued EXCEPT ![i] = zfFlag]
    /\ bpc' = [bpc EXCEPT ![i] = "inflight"]
    /\ UNCHANGED <<res, attempt>>
    /\ UNCHANGED <<rev, lbVars, dpc, reqVars, cancelled, chanVars, wg, cpc,
                   markVars, consumerVars>>

\* singleHostRequest: the ctx check, then PostForm is issued
singleHostRequestCheck(i) ==
    /\ bpc[i] = "req"
    /\ IF ctxDone
       THEN /\ res' = [res EXCEPT ![i] = [err |-> "Canceled", code |-> 0]]
            /\ bpc' = [bpc EXCEPT ![i] = "have"]
            /\ attempt' = [attempt EXCEPT ![i] = 0]
            /\ UNCHANGED callVars
       ELSE /\ calls' = IF zfFlag THEN calls ELSE calls + 1
            /\ issued' = [issued EXCEPT ![i] = zfFlag]
            /\ bpc' = [bpc EXCEPT ![i] = "inflight"]
            /\ UNCHANGED <<res, attempt>>
    /\ UNCHANGED <<rev, lbVars, dpc, reqVars, cancelled, chanVars, wg, cpc,
                   markVars, consumerVars>>

\* singleHostRequest: PostForm or json.Unmarshal failed
PostFormError(i) ==
    /\ bpc[i] = "inflight"
    /\ res' = [res EXCEPT ![i] = [err |-> "RequestError", code |-> 0]]
    /\ bpc' = [bpc EXCEPT ![i] = "have"]
    /\ attempt' = [attempt EXCEPT ![i] = 0]
    /\ UNCHANGED <<rev, lbVars, dpc, reqVars, callVars, cancelled, chanVars, wg,
                   cpc, markVars, consumerVars>>

\* singleHostRequest: the node answered with envelope code c
PostFormReply(i, c) ==
    /\ bpc[i] = "inflight"
    /\ IF Retries(rev, c, attempt[i])
       THEN /\ attempt' = [attempt EXCEPT ![i] = @ + 1]
            /\ bpc' = [bpc EXCEPT ![i] = "req"]
            /\ res' = res
       ELSE /\ res' = [res EXCEPT ![i] = [err |-> "nil", code |-> c]]
            /\ bpc' = [bpc EXCEPT ![i] = "have"]
            /\ attempt' = [attempt EXCEPT ![i] = 0]
    /\ UNCHANGED <<rev, lbVars, dpc, reqVars, callVars, cancelled, chanVars, wg, cpc,
                   markVars, consumerVars>>

\* a panic inside the call of a hedge branch, current revision: the deferred
\* recover records one Fail, then the deferred wg.Done runs
BranchPanicRecovered(i) ==
    /\ bpc[i] = "inflight"
    /\ zfFlag
    /\ rev = "current"
    /\ res' = [res EXCEPT ![i] = [err |-> "panic", code |-> 0]]
    /\ attempt' = [attempt EXCEPT ![i] = 0]
    /\ nFail' = [nFail EXCEPT ![i] = @ + 1]
    /\ bpc' = [bpc EXCEPT ![i] = "done"]
    /\ wg' = wg - 1
    /\ UNCHANGED <<rev, lbVars, dpc, reqVars, callVars, cancelled, chanVars, cpc,
                   nSucc, consumerVars>>

\* a panic inside the call of a hedge branch, legacy revision: no recover in the
\* goroutine, the process dies
BranchPanicCrash(i) ==
    /\ bpc[i] = "inflight"
    /\ zfFlag
    /\ rev = "legacy"
    /\ res' = [res EXCEPT ![i] = [err |-> "panic", code |-> 0]]
    /\ attempt' = [attempt EXCEPT ![i] = 0]
    /\ bpc' = [j \in Slots |-> IF bpc[j] = "none" THEN "none" ELSE "crashed"]
    /\ cpc' = "crashed"
    /\ dpc' = "crashed"
    /\ UNCHANGED <<rev, lbVars, reqVars, callVars, cancelled, chanVars, wg,
                   markVars, consumerVars>>

\* a panic inside the single-node call unwinds FetchHandleOfPost into its caller
SinglePanic ==
    /\ dpc = "single"
    /\ bpc[1] = "inflight"
    /\ res' = [res EXCEPT ![1] = [err |-> "panic", code |-> 0]]
    /\ attempt' = [attempt EXCEPT ![1] = 0]
    /\ bpc' = [bpc EXCEPT ![1] = "done"]
    /\ dpc' = "panicked"
    /\ UNCHANGED <<rev, lbVars, reqVars, callVars, cancelled, chanVars, wg, cpc,
                   markVars, consumerVars>>

\* hedge branch: select, case resultCh <- result{...}; then the deferred wg.Done
BranchSend(i) ==
    /\ bpc[i] = "have"
    /\ zfFlag
    /\ Len(resultCh) < ChanCap(hosts)
    /\ resultCh' = Append(resultCh, [idx |-> i, host |-> hosts[i], err |-> res[i].err,
                                     code |-> res[i].code])
    /\ bpc' = [bpc EXCEPT ![i] = "done"]
    /\ wg' = wg - 1
    /\ UNCHANGED <<rev, lbVars, dpc, reqVars, attempt, callVars, res, cancelled, closed,
                   cpc, markVars, consumerVars>>

\* hedge branch: select, case <-ctx.Done(): the result is dropped
BranchDrop(i) ==
    /\ bpc[i] = "have"
    /\ zfFlag
    /\ cancelled
    /\ bpc' = [bpc EXCEPT ![i] = "done"]
    /\ wg' = wg - 1
    /\ UNCHANGED <<rev, lbVars, dpc, reqVars, attempt, callVars, res, cancelled, chanVars,
                   cpc, markVars, consumerVars>>

\* mutant: the closing goroutine waits but never closes the channel
CloserForgetsClose ==
    /\ cpc = "wait"
    /\ wg = 0
    /\ cpc' = "done"
    /\ UNCHANGED <<rev, lbVars, dpc, reqVars, bpc, attempt, callVars, res, cancelled,
                   chanVars, wg, markVars, consumerVars>>

\* go func() { wg.Wait(); close(resultCh) }()
Closer ==
    /\ cpc = "wait"
    /\ wg = 0
    /\ closed' = TRUE
    /\ cpc' = "done"
    /\ UNCHANGED <<rev, lbVars, dpc, reqVars, bpc, attempt, callVars, res, cancelled,
                   resultCh, wg, markVars, consumerVars>>

\* for r := range resultCh { ... }: one iteration of the consuming loop
ConsumerRecv ==
    /\ dpc = "consume"
    /\ resultCh # <<>>
    /\ LET r == Head(resultCh)
           failed == /\ nFail' = [nFail EXCEPT ![r.idx] = @ + 1]
                     /\ firstErr' = IF firstErr = "nil" THEN "ServerError" ELSE firstErr
                     /\ UNCHANGED <<nSucc, winner, dpc>>
       IN  /\ resultCh' = Tail(resultCh)
           /\ consumed' = consumed \cup {r.idx}
           /\ IF r.err # "nil"
              THEN IF SkipsCanceled(rev, r.err)
                   THEN UNCHANGED <<markVars, firstErr, winner, dpc>>
                   ELSE failed
              ELSE IF IsTerminal(r.code)
                   THEN /\ nSucc' = [nSucc EXCEPT ![r.idx] = @ + 1]
                        /\ winner' = r.idx
                        /\ dpc' = "cancel"
                        /\ UNCHANGED <<nFail, firstErr>>
                   ELSE failed
    /\ UNCHANGED <<rev, lbVars, reqVars, bpc, attempt, callVars, res, cancelled, closed,
                   wg, cpc, ret>>

\* mutant: cancel() without the return that follows it, the loop goes on
ConsumerCancelKeepsLooping ==
    /\ dpc = "cancel"
    /\ cancelled' = TRUE
    /\ dpc' = "consume"
    /\ UNCHANGED <<rev, lbVars, reqVars, bpc, attempt, callVars, res, chanVars, wg, cpc,
                   markVars, consumerVars>>

\* cancel() after CB.Success on a terminal result
ConsumerCancel ==
    /\ dpc = "cancel"
    /\ cancelled' = TRUE
    /\ dpc' = "ret"
    /\ UNCHANGED <<rev, lbVars, reqVars, bpc, attempt, callVars, res, chanVars, wg, cpc,
                   markVars, consumerVars>>

\* mutant: a recorded firstErr is returned in place of the winner's outcome
ConsumerReturnLeaksFirstErr ==
    /\ dpc = "ret"
    /\ ret' = IF firstErr # "nil" THEN [data |-> 0, err |-> firstErr]
              ELSE CodeOutcome(res[winner].code, winner)
    /\ dpc' = "returned"
    /\ UNCHANGED <<rev, lbVars, reqVars, bpc, attempt, callVars, res, cancelled, chanVars,
                   wg, cpc, markVars, firstErr, consumed, winner>>

\* return r.rc.Data, nil / return nil, <domain error>
ConsumerReturn ==
    /\ dpc = "ret"
    /\ ret' = CodeOutcome(res[winner].code, winner)
    /\ dpc' = "returned"
    /\ UNCHANGED <<rev, lbVars, reqVars, bpc, attempt, callVars, res, cancelled, chanVars,
                   wg, cpc, markVars, firstErr, consumed, winner>>

\* mutant: firstErr is returned as it is, without the ServerError fallback
ConsumerExhaustedNoFallback ==
    /\ dpc = "consume"
    /\ resultCh = <<>>
    /\ closed
    /\ ret' = [data |-> 0, err |-> firstErr]
    /\ cancelled' = TRUE
    /\ dpc' = "returned"
    /\ UNCHANGED <<rev, lbVars, reqVars, bpc, attempt, callVars, res, chanVars, wg, cpc,
                   markVars, firstErr, consumed, winner>>

\* the range loop ends on the closed, drained channel: return nil, firstErr
\* (ServerError when none was recorded); the deferred cancel() runs
ConsumerExhausted ==
    /\ dpc = "consume"
    /\ resultCh = <<>>
    /\ closed
    /\ ret' = [data |-> 0, err |-> IF firstErr = "nil" THEN "ServerError" ELSE firstErr]
    /\ cancelled' = TRUE
    /\ dpc' = "returned"
    /\ UNCHANGED <<rev, lbVars, reqVars, bpc, attempt, callVars, res, chanVars, wg, cpc,
                   markVars, firstErr, consumed, winner>>

\* mutant: the wrapper's RequestError is passed to the caller as it is
SingleReturnLeaksRequestError ==
    /\ dpc = "single"
    /\ bpc[1] = "have"
    /\ ret' = IF res[1].err # "nil"
              THEN [data |-> 0, err |-> res[1].err]
              ELSE CodeOutcome(res[1].code, 1)
    /\ bpc' = [bpc EXCEPT ![1] = "done"]
    /\ dpc' = "returned"
    /\ UNCHANGED <<rev, lbVars, reqVars, attempt, callVars, res, cancelled, chanVars, wg,
                   cpc, markVars, firstErr, consumed, winner>>

\* mutant: a failed single-node call is reported to the circuit breaker
SingleReturnMarksFail ==
    /\ dpc = "single"
    /\ bpc[1] = "have"
    /\ ret' = IF res[1].err # "nil"
              THEN [data |-> 0, err |-> "ServerError"]
              ELSE CodeOutcome(res[1].code, 1)
    /\ nFail' = IF ret'.err = "ServerError" THEN [nFail EXCEPT ![1] = @ + 1] ELSE nFail
    /\ bpc' = [bpc EXCEPT ![1] = "done"]
    /\ dpc' = "returned"
    /\ UNCHANGED <<rev, lbVars, reqVars, attempt, callVars, res, cancelled, chanVars, wg,
                   cpc, nSucc, firstErr, consumed, winner>>

\* single-node mode: map the one result of singleHostRequest
SingleReturn ==
    /\ dpc = "single"
    /\ bpc[1] = "have"
    /\ ret' = IF res[1].err # "nil"
              THEN [data |-> 0, err |-> "ServerError"]
              ELSE CodeOutcome(res[1].code, 1)
    /\ bpc' = [bpc EXCEPT ![1] = "done"]
    /\ dpc' = "returned"
    /\ UNCHANGED <<rev, lbVars, reqVars, attempt, callVars, res, cancelled, chanVars, wg,
                   cpc, markVars, firstErr, consumed, winner>>

\* ------------------------------------------------ calls on the LoadBalance
\* the record lastOp keeps of a call, with the pools as the call found them
OpRecord(op, lt, api, apis) ==
    [op |-> op, lt |-> lt, api |-> api, apis |-> apis, zfLB |-> zfLB, oauthLB |-> oauthLB]

\* mutant: every address goes to the ZF pool, whatever the login type
LoadBalanceAddIgnoresType(api, lt) ==
    /\ Len(zfLB.Api) < MaxApis
    /\ zfLB' = Add(zfLB, api)
    /\ oauthLB' = oauthLB
    /\ lastOp' = OpRecord("Add", lt, api, <<>>)
    /\ UNCHANGED <<dispVars, pickVars, cbVars>>

\* LoadBalance.Add(api, loginType)
LoadBalanceAdd(api, lt) ==
    /\ Len(PoolOf(lt).Api) < MaxApis
    /\ IF lt = "OAUTH"
       THEN oauthLB' = Add(oauthLB, api) /\ zfLB' = zfLB
       ELSE zfLB' = Add(zfLB, api) /\ oauthLB' = oauthLB
    /\ lastOp' = OpRecord("Add", lt, api, <<>>)
    /\ UNCHANGED <<dispVars, pickVars, cbVars>>

\* s after the entry at i was cut out of the array s shares: what follows i has
\* moved down one place, the last place keeps its old value
ShiftedInPlace(s, i) ==
    [k \in 1..Len(s) |-> IF k < i \/ k = Len(s) THEN s[k] ELSE s[k + 1]]

\* mutant: list hands out b.Api itself, so the cut Remove makes in place shows
\* in the snapshot and the candidate list of a Dispatch in flight
LoadBalanceRemoveSharedSlice(api, lt) ==
    /\ IF lt = "OAUTH"
       THEN oauthLB' = Remove(oauthLB, api) /\ zfLB' = zfLB
       ELSE zfLB' = Remove(zfLB, api) /\ oauthLB' = oauthLB
    /\ lastOp' = OpRecord("Remove", lt, api, <<>>)
    /\ LET shared == (lt = "OAUTH") <=> (loginType = "OAUTH")
           i == IndexOf(snapshot, api)
           j == IndexOf(hosts, api)
       IN  /\ snapshot' = IF shared /\ i # 0 THEN ShiftedInPlace(snapshot, i) ELSE snapshot
           /\ hosts' = IF shared /\ j # 0 THEN ShiftedInPlace(hosts, j) ELSE hosts
    /\ UNCHANGED <<rev, dpc, zfFlag, loginType, host, bpc, attempt, callVars, res, cancelled,
                   chanVars, wg, cpc, markVars, consumerVars, pickVars, cbVars>>

\* LoadBalance.Remove(api, loginType)
LoadBalanceRemove(api, lt) ==
    /\ IF lt = "OAUTH"
       THEN oauthLB' = Remove(oauthLB, api) /\ zfLB' = zfLB
       ELSE zfLB' = Remove(zfLB, api) /\ oauthLB' = oauthLB
    /\ lastOp' = OpRecord("Remove", lt, api, <<>>)
    /\ UNCHANGED <<dispVars, pickVars, cbVars>>

\* LoadBalance.List(loginType), called from outside the dispatcher; apis is what
\* the caller got
LoadBalanceList(lt) ==
    /\ lastOp' = OpRecord("List", lt, NoHost, List(lt))
    /\ UNCHANGED <<dispVars, pools, pickVars, cbVars>>

\* randomLB.ReBalance(apis) on the pool of login type lt
randomLBReBalance(apis, lt) ==
    /\ IF lt = "OAUTH"
       THEN oauthLB' = ReBalance(oauthLB, apis) /\ zfLB' = zfLB
       ELSE zfLB' = ReBalance(zfLB, apis) /\ oauthLB' = oauthLB
    /\ lastOp' = OpRecord("ReBalance", lt, NoHost, apis)
    /\ UNCHANGED <<dispVars, pickVars, cbVars>>

\* LoadBalance.Pick(zfFlag, oauthFlag), first line:
\* oauthAvailable := oauthFlag && lb.oauthLB.isAvailable()
LoadBalancePickOauth(zf, oauth) ==
    /\ ppc \in {"idle", "done"}
    /\ pickArgs' = [zfFlag |-> zf, oauthFlag |-> oauth]
    /\ oauthAvailable' = (oauth /\ isAvailable(oauthLB))
    /\ zfAvailable' = FALSE
    /\ pickRet' = NoPick
    /\ ppc' = "zf"
    /\ UNCHANGED <<dispVars, cbVars, pools, lastOp>>

\* LoadBalance.Pick, second line: zfAvailable := zfFlag && lb.zfLB.isAvailable()
LoadBalancePickZf ==
    /\ ppc = "zf"
    /\ zfAvailable' = (pickArgs.zfFlag /\ isAvailable(zfLB))
    /\ ppc' = "pick"
    /\ UNCHANGED <<dispVars, cbVars, pools, lastOp, pickArgs, oauthAvailable, pickRet>>

\* LoadBalance.Pick, the rest: the branch on the two locals, with
\* coin = (fastrand.Intn(100) > 50), and the randomLB.Pick of the chosen pool
LoadBalancePickReturn(coin) ==
    /\ ppc = "pick"
    /\ IF oauthAvailable /\ (~zfAvailable \/ coin)
       THEN \E n \in PickRange(oauthLB) :
                pickRet' = [api |-> Pick(oauthLB, n), lt |-> "OAUTH", err |-> "nil"]
       ELSE IF zfAvailable
            THEN \E n \in PickRange(zfLB) :
                     pickRet' = [api |-> Pick(zfLB, n), lt |-> "ZF", err |-> "nil"]
            ELSE pickRet' = [api |-> NoHost, lt |-> "Unknown", err |-> "NoApiAvailable"]
    /\ ppc' = "done"
    /\ UNCHANGED <<dispVars, cbVars, pools, lastOp, pickArgs, oauthAvailable, zfAvailable>>

\* the LoadBalance alone: membership changes, snapshots and one Pick at a time, in
\* any interleaving of their locked sections
PoolNext ==
    \/ \E a \in Addr, lt \in LoginTypes : LoadBalanceAdd(a, lt)
    \/ \E a \in Addr \cup {"C"}, lt \in LoginTypes : LoadBalanceRemove(a, lt)
    \/ \E lt \in LoginTypes : LoadBalanceList(lt)
    \/ \E apis \in SeqsUpTo(Addr, MaxPool), lt \in FairLoginTypes : randomLBReBalance(apis, lt)
    \/ \E zf \in BOOLEAN, oauth \in BOOLEAN : LoadBalancePickOauth(zf, oauth)
    \/ LoadBalancePickZf
    \/ \E coin \in BOOLEAN : LoadBalancePickReturn(coin)

\* the pools as constructed; the calls on them are the same in both revisions of
\* the dispatcher, so one is fixed
PoolInit == Init /\ rev = "current"

PoolSpec == PoolInit /\ [][PoolNext]_vars

\* -------------------------------------------------------- circuit breaker
\* the pool of login type lt becomes zf (ZF) or oauth (OAuth), the other stays
PoolsAfter(lt, zf, oauth) ==
    IF lt = "OAUTH" THEN zfLB' = zfLB /\ oauthLB' = oauth
    ELSE zfLB' = zf /\ oauthLB' = oauthLB

\* CB.Fail(node, loginType): Closed counts the failure and opens at N; HalfOpen
\* reopens at once; an opened node is taken out of its pool (LB.Remove). No
\* transition leaves Open on a Fail, so the call changes nothing there.
Fail(a, lt) ==
    LET k == <<a, lt>>
        opens == \/ cbStatus[k] = "HalfOpen"
                 \/ cbStatus[k] = "Closed" /\ cbCount[k] + 1 >= FailThreshold
    IN  /\ cbStatus[k] # "Open"
        /\ cbCount' = [cbCount EXCEPT ![k] = IF @ < FailThreshold THEN @ + 1 ELSE @]
        /\ cbStatus' = [cbStatus EXCEPT ![k] = IF opens THEN "Open" ELSE @]
        /\ IF opens
           THEN PoolsAfter(lt, Remove(zfLB, a), Remove(oauthLB, a))
           ELSE UNCHANGED pools
        /\ UNCHANGED <<dispVars, lastOp, pickVars>>

\* CB.Success(node, loginType): Closed and HalfOpen end Closed with the count at
\* zero. No transition leaves Open on a Success, so the call changes nothing there.
Success(a, lt) ==
    LET k == <<a, lt>>
    IN  /\ cbStatus[k] # "Open"
        /\ cbCount' = [cbCount EXCEPT ![k] = 0]
        /\ cbStatus' = [cbStatus EXCEPT ![k] = "Closed"]
        /\ UNCHANGED <<dispVars, pools, lastOp, pickVars>>

\* the cooldown since the open-time has elapsed: Open becomes HalfOpen and the
\* node is put back into its pool (LB.Add, explored up to MaxApis entries)
CooldownElapsed(a, lt) ==
    LET k == <<a, lt>>
    IN  /\ cbStatus[k] = "Open"
        /\ Len(PoolOf(lt).Api) < MaxApis
        /\ cbStatus' = [cbStatus EXCEPT ![k] = "HalfOpen"]
        /\ PoolsAfter(lt, Add(zfLB, a), Add(oauthLB, a))
        /\ UNCHANGED <<dispVars, lastOp, pickVars, cbCount>>

\* the breaker fed by hedge branches, with List as the dispatcher calls it
BreakerNext ==
    \/ \E a \in Addr, lt \in FairLoginTypes : Fail(a, lt)
    \/ \E a \in Addr, lt \in FairLoginTypes : Success(a, lt)
    \/ \E a \in Addr, lt \in FairLoginTypes : CooldownElapsed(a, lt)
    \/ \E lt \in FairLoginTypes : LoadBalanceList(lt)

BreakerSpec == PoolInit /\ [][BreakerNext]_vars

\* a hedged Dispatch has taken its snapshot
InFlight == zfFlag /\ dpc # "idle"

\* a membership change made by another goroutine once a hedged Dispatch has
\* called List, at any point of its fan-out or after it (one change per Dispatch)
MembershipChange ==
    /\ InFlight
    /\ lastOp = NoOp
    /\ \/ \E a \in Addr, lt \in FairLoginTypes : LoadBalanceAdd(a, lt)
       \/ \E a \in Addr, lt \in FairLoginTypes : LoadBalanceRemove(a, lt)
       \/ \E apis \in SeqsUpTo(Addr, MaxApis), lt \in FairLoginTypes :
              randomLBReBalance(apis, lt)

\* every step of the program, with the node replies drawn from `codes` and the
\* payload's login type from `lts`
NextOver(codes, lts) ==
    \/ \E lt \in lts, h \in Hosts : FetchHandleOfPostSingle(lt, h)
    \/ \E lt \in lts, h \in Hosts : FetchHandleOfPostHedge(lt, h)
    \/ \E i \in Slots : BranchPreCheck(i)
    \/ \E i \in Slots : singleHostRequestCheck(i)
    \/ \E i \in Slots : PostFormError(i)
    \/ \E i \in Slots, c \in codes : PostFormReply(i, c)
    \/ \E i \in Slots : BranchPanicRecovered(i)
    \/ \E i \in Slots : BranchPanicCrash(i)
    \/ SinglePanic
    \/ \E i \in Slots : BranchSend(i)
    \/ \E i \in Slots : BranchDrop(i)
    \/ Closer
    \/ ConsumerRecv
    \/ ConsumerCancel
    \/ ConsumerReturn
    \/ ConsumerExhausted
    \/ SingleReturn

Next == NextOver(Codes, LoginTypes)

Spec == Init /\ [][Next]_vars

\* a hedged Dispatch (one reply code that ends the race; PostFormError is the
\* failure) with the pools changing under it
HedgePoolNext ==
    \/ \E lt \in FairLoginTypes, h \in Hosts : FetchHandleOfPostHedge(lt, h)
    \/ \E i \in Slots : BranchPreCheck(i)
    \/ \E i \in Slots : singleHostRequestCheck(i)
    \/ \E i \in Slots : PostFormError(i)
    \/ \E i \in Slots : PostFormReply(i, funnelCodeSuccess)
    \/ \E i \in Slots : BranchPanicRecovered(i)
    \/ \E i \in Slots : BranchSend(i)
    \/ \E i \in Slots : BranchDrop(i)
    \/ Closer
    \/ ConsumerRecv
    \/ ConsumerCancel
    \/ ConsumerReturn
    \/ ConsumerExhausted
    \/ MembershipChange

\* the current revision of the dispatcher over the pools as constructed
HedgePoolInit == Init /\ rev = "current"

HedgePoolSpec == HedgePoolInit /\ [][HedgePoolNext]_vars

\* the steps of one hedge branch goroutine, its call included
BranchStep(i) ==
    \/ BranchPreCheck(i)
    \/ singleHostRequestCheck(i)
    \/ PostFormError(i)
    \/ \E c \in FairCodes : PostFormReply(i, c)
    \/ BranchPanicRecovered(i)
    \/ BranchPanicCrash(i)
    \/ BranchSend(i)
    \/ BranchDrop(i)

\* the steps of the goroutine that runs FetchHandleOfPost
DispatcherStep ==
    \/ ConsumerRecv
    \/ ConsumerCancel
    \/ ConsumerReturn
    \/ ConsumerExhausted
    \/ SinglePanic
    \/ SingleReturn

FairNext == NextOver(FairCodes, FairLoginTypes)

\* the Go scheduler runs every runnable goroutine, and every PostForm call returns
FairSpec ==
    /\ Init
    /\ [][FairNext]_vars
    /\ \A i \in Slots : WF_vars(BranchStep(i))
    /\ WF_vars(Closer)
    /\ WF_vars(DispatcherStep)

\* the single-node Dispatch alone, with every reply code of SingleCodes
SingleNext ==
    \/ \E lt \in LoginTypes, h \in Hosts : FetchHandleOfPostSingle(lt, h)
    \/ singleHostRequestCheck(1)
    \/ PostFormError(1)
    \/ \E c \in SingleCodes : PostFormReply(1, c)
    \/ SinglePanic
    \/ SingleReturn

SingleSpec == Init /\ [][SingleNext]_vars

\* ------------------------------------------------------- shared vocabulary
\* the candidate slots of the Dispatch in progress
Cands == 1..Len(hosts)

NoRepeats(s) == \A i, j \in 1..Len(s) : s[i] = s[j] => i = j
Range(s) == {s[i] : i \in 1..Len(s)}
Occurrences(s, x) == Cardinality({i \in 1..Len(s) : s[i] = x})

\* a branch result the consuming loop treats as a node failure
NonTerminalRes(r) ==
    \/ r.err = "RequestError"
    \/ r.err = "nil" /\ r.code \notin {200, 412, 416}

\* candidate i was aborted by the cancellation signal alone: singleHostRequest
\* returned ctx.Err(), or the branch left at its pre-call check
AbortedByCancel(i) ==
    \/ res[i].err = "Canceled"
    \/ bpc[i] = "done" /\ res[i] = NoRes

\* the one Fail a recovered panic records for its own slot
PanicFails(i) == IF rev = "current" /\ res[i].err = "panic" THEN 1 ELSE 0

HedgeReturned == zfFlag /\ dpc = "returned"

\* ------------------------------------------------------------------- C1
\* C1 as stated: once the consuming loop has taken a 200/412/416 result, that slot
\* alone is marked Success, cancellation is signalled, the Dispatch returns that
\* result's data or domain error, and no slot whose result was not consumed
\* carries any Success or Fail mark.
C1_Original ==
    (HedgeReturned /\ winner # 0) =>
        /\ res[winner].err = "nil"
        /\ res[winner].code \in {200, 412, 416}
        /\ res[winner].code = 200 => ret = [data |-> winner, err |-> "nil"]
        /\ res[winner].code = 412 => ret = [data |-> 0, err |-> "NoThatPasswordOrWrong"]
        /\ res[winner].code = 416 => ret = [data |-> 0, err |-> "OAuthNotUpdate"]
        /\ cancelled
        /\ nSucc[winner] = 1 /\ nFail[winner] = 0
        /\ \A i \in Slots \ consumed : nSucc[i] = 0 /\ nFail[i] = 0

\* C1 (amended): the first 200/412/416 result the consuming loop takes decides the
\* call: nothing is consumed after it, exactly that slot is marked Success,
\* cancellation is signalled and the Dispatch returns that result's data or domain
\* error; a slot whose result was not consumed carries no Success and no Fail,
\* except the single Fail that the recover handler of a panicking branch records.
C1_FirstTerminalDecides ==
    [][ /\ winner # 0 => (consumed' = consumed /\ winner' = winner /\ nSucc' = nSucc)
        /\ (HedgeReturned' /\ winner' # 0) =>
              /\ res'[winner'].err = "nil"
              /\ res'[winner'].code \in {200, 412, 416}
              /\ res'[winner'].code = 200 => ret' = [data |-> winner', err |-> "nil"]
              /\ res'[winner'].code = 412 =>
                     ret' = [data |-> 0, err |-> "NoThatPasswordOrWrong"]
              /\ res'[winner'].code = 416 => ret' = [data |-> 0, err |-> "OAuthNotUpdate"]
              /\ cancelled'
              /\ nSucc'[winner'] = 1 /\ nFail'[winner'] = 0
              /\ \A i \in Slots \ consumed' :
                     nSucc'[i] = 0 /\ nFail'[i] = PanicFails(i)'
      ]_vars

\* a 412 won while another candidate's 200 was never consumed and left unmarked
C1_Witness ==
    /\ HedgeReturned /\ winner # 0
    /\ res[winner].code = 412
    /\ ret.err = "NoThatPasswordOrWrong"
    /\ \E j \in Cands \ consumed : res[j].code = 200 /\ nSucc[j] = 0 /\ nFail[j] = 0

C3_AllFail ==
    /\ \A i \in Slots : nFail[i] <= 1
    /\ (HedgeReturned /\ hosts # <<>> /\ \A i \in Cands : NonTerminalRes(res[i])) =>
           /\ ret = [data |-> 0, err |-> "ServerError"]
           /\ winner = 0
           /\ \A i \in Cands : nFail[i] = 1 /\ nSucc[i] = 0
           /\ \A a \in Range(hosts) :
                  Cardinality({i \in Cands : hosts[i] = a /\ nFail[i] = 1})
                      = Occurrences(hosts, a)

\* two candidates, one transport error and one 413, both marked Fail
C3_Witness ==
    /\ HedgeReturned /\ Len(hosts) = 2
    /\ \E i, j \in Cands :
           /\ res[i].err = "RequestError" /\ res[j] = [err |-> "nil", code |-> 413]
           /\ nFail[i] = 1 /\ nFail[j] = 1
    /\ ret.err = "ServerError"

C5_Original ==
    (zfFlag /\ dpc # "idle" /\ snapshot = <<>>) =>
        /\ dpc = "returned"
        /\ ret = [data |-> 0, err |-> "NoApiAvailable"]
        /\ \A i \in Slots : ~issued[i] /\ bpc[i] = "none"

\* ------------------------------------------------------------------- C6
\* C6 as stated: a non-hedged Dispatch issues exactly one outbound call, whatever
\* the node answers (413 included): never more than one while it runs, exactly one
\* once it has returned.
C6_Original ==
    ~zfFlag =>
        /\ calls <= 1
        /\ dpc \in {"returned", "panicked"} => calls = 1

\* ------------------------------------------------------------------- C7
\* C7: a hedged Dispatch returns one outcome and never changes it; the outcome is
\* either data with no error, and then the consuming loop took a code-200 result
\* of the candidate whose data it is, or no data with one of the dispatcher's
\* errors, never a nil error.
C7_OneOutcome ==
    [][ /\ ret # NoRet => ret' = ret
        /\ HedgeReturned' =>
              /\ ret' # NoRet
              /\ ret'.err = "nil" =>
                     /\ ret'.data = winner' /\ winner' \in consumed'
                     /\ res'[winner'] = [err |-> "nil", code |-> 200]
              /\ ret'.err # "nil" =>
                     /\ ret'.data = 0
                     /\ ret'.err \in {"ServerError", "NoThatPasswordOrWrong",
                                      "OAuthNotUpdate", "NoApiAvailable"}
      ]_vars

\* the channel was closed with nothing recorded in firstErr (every branch
\* panicked and was recovered) and the Dispatch still returned the server error
C7_Witness ==
    /\ HedgeReturned /\ hosts # <<>>
    /\ firstErr = "nil" /\ winner = 0 /\ consumed = {}
    /\ ret = [data |-> 0, err |-> "ServerError"]

\* ------------------------------------------------------------------- C9
\* C9: with a non-empty preferred host and a snapshot without repeated address,
\* the fanned-out candidate list starts with the preferred host, holds it once,
\* holds exactly the snapshot's addresses plus the preferred host, each once, and
\* one branch is started per candidate.
C9_PreferredFirst ==
    (zfFlag /\ dpc # "idle" /\ host # NoHost /\ NoRepeats(snapshot)) =>
        /\ hosts # <<>>
        /\ hosts[1] = host
        /\ Occurrences(hosts, host) = 1
        /\ Range(hosts) = Range(snapshot) \cup {host}
        /\ NoRepeats(hosts)
        /\ \A i \in Slots : (bpc[i] # "none") <=> (i \in Cands)

\* the preferred host was found behind the front of the snapshot and moved up
C9_Witness ==
    /\ zfFlag /\ dpc = "consume" /\ host # NoHost
    /\ Len(snapshot) = 2 /\ NoRepeats(snapshot) /\ snapshot[2] = host
    /\ hosts[1] = host /\ hosts[2] = snapshot[1]

\* ------------------------------------------------------------------ C10
\* C10 as stated: a panic inside a hedge branch is caught in that branch: the
\* process keeps running, the branch's node is marked Fail once and the branch
\* ends with its wait-group slot released.
C10_Original ==
    \A i \in Cands :
        (zfFlag /\ res[i].err = "panic") =>
            /\ dpc # "crashed"
            /\ nFail[i] = 1
            /\ bpc[i] = "done"

\* ------------------------------------------------------------------ C11
SingleReturned == ~zfFlag /\ dpc = "returned"

\* C11: a non-hedged Dispatch that returns maps the one result of its call: a
\* transport or decode failure gives the generic server error; code 200 gives the
\* payload data with no error; 412 the wrong-password error; 416 the
\* oauth-not-updated error; every other code (410, 413, 414, 415, unknown) the
\* generic server error. The call never ends in a cancellation outcome.
C11_SingleOutcome ==
    SingleReturned =>
        /\ res[1].err \in {"nil", "RequestError"}
        /\ res[1].err = "RequestError" => ret = [data |-> 0, err |-> "ServerError"]
        /\ (res[1].err = "nil" /\ res[1].code = 200) => ret = [data |-> 1, err |-> "nil"]
        /\ (res[1].err = "nil" /\ res[1].code = 412) =>
               ret = [data |-> 0, err |-> "NoThatPasswordOrWrong"]
        /\ (res[1].err = "nil" /\ res[1].code = 416) =>
               ret = [data |-> 0, err |-> "OAuthNotUpdate"]
        /\ (res[1].err = "nil" /\ res[1].code \notin {200, 412, 416}) =>
               ret = [data |-> 0, err |-> "ServerError"]

\* the node answered 415 and the caller got the generic server error
C11_Witness ==
    /\ SingleReturned
    /\ res[1] = [err |-> "nil", code |-> 415]
    /\ ret = [data |-> 0, err |-> "ServerError"]

\* ------------------------------------------------------------------ C12
\* C12: no step of a non-hedged Dispatch changes a node pool or calls Fail or
\* Success, and none takes a List snapshot or builds a candidate list, whatever
\* its call returns.
C12_SingleLeavesStateAlone ==
    [][ ~zfFlag' =>
            /\ zfLB' = zfLB /\ oauthLB' = oauthLB
            /\ nFail' = nFail /\ nSucc' = nSucc
            /\ snapshot' = snapshot /\ hosts' = hosts
            /\ snapshot' = <<>> /\ \A i \in Slots : nFail'[i] = 0 /\ nSucc'[i] = 0
      ]_vars

\* a failed single-node call against a node of a non-empty pool, nothing marked
C12_Witness ==
    /\ SingleReturned
    /\ res[1].err = "RequestError" /\ ret.err = "ServerError"
    /\ host \in Range(list(zfLB)) \cup Range(list(oauthLB))
    /\ nFail[1] = 0 /\ snapshot = <<>>

C13_SnapshotIsolation ==
    [][ (zfFlag' /\ dpc' # "idle") =>
            /\ dpc = "idle" =>
                   snapshot' = IF loginType' = "OAUTH" THEN oauthLB.Api ELSE zfLB.Api
            /\ dpc # "idle" => (snapshot' = snapshot /\ hosts' = hosts)
            /\ Range(hosts') = Range(snapshot') \cup ({host'} \ {NoHost})
            /\ \A i \in Slots : (issued'[i] \/ bpc'[i] # "none") => i \in 1..Len(hosts')
            /\ \A k \in 1..Len(resultCh') :
                   /\ resultCh'[k].idx \in 1..Len(hosts')
                   /\ resultCh'[k].host = hosts'[resultCh'[k].idx]
      ]_vars

\* an address of the snapshot was removed from its pool while the Dispatch was in
\* flight; it is still a candidate, and its branch has called it and published
C13_Witness ==
    /\ InFlight /\ rev = "current"
    /\ lastOp.op = "Remove" /\ PoolOf(lastOp.lt) = PoolOf(loginType)
    /\ lastOp.api \in Range(snapshot) /\ lastOp.api \notin Range(List(loginType))
    /\ \E i \in Cands :
           /\ hosts[i] = lastOp.api /\ issued[i]
           /\ \E k \in 1..Len(resultCh) : resultCh[k].host = lastOp.api

TargetBefore == IF lastOp.lt = "OAUTH" THEN lastOp.oauthLB ELSE lastOp.zfLB
TargetNow == IF lastOp.lt = "OAUTH" THEN oauthLB ELSE zfLB
\* the pool the last call was not routed to
OtherBefore == IF lastOp.lt = "OAUTH" THEN lastOp.zfLB ELSE lastOp.oauthLB
OtherNow == IF lastOp.lt = "OAUTH" THEN zfLB ELSE oauthLB

\* s is t with one entry equal to x taken out
OneTakenOut(s, t, x) ==
    \E i \in 1..Len(t) :
        /\ t[i] = x
        /\ Len(s) = Len(t) - 1
        /\ \A k \in 1..Len(s) : s[k] = IF k < i THEN t[k] ELSE t[k + 1]

\* ------------------------------------------------------------------ C16
\* C16: Add, Remove and List with login type OAuth read and change the OAuth pool
\* only, and with any other login type (ZF, Unknown) the ZF pool only: the other
\* pool is as the call found it, Add has appended its address to the routed pool,
\* Remove has taken one entry of its address out of the routed pool (when it held
\* one), and List has returned the routed pool's addresses.
C16_PoolsIndependent ==
    lastOp.op \in {"Add", "Remove", "List"} =>
        /\ OtherNow = OtherBefore
        /\ lastOp.op = "Add" =>
               /\ TargetNow.Api = TargetBefore.Api \o <<lastOp.api>>
               /\ TargetNow.Size = TargetBefore.Size + 1
        /\ (lastOp.op = "Remove" /\ lastOp.api \in Range(TargetBefore.Api)) =>
               /\ OneTakenOut(TargetNow.Api, TargetBefore.Api, lastOp.api)
               /\ TargetNow.Size = TargetBefore.Size - 1
        /\ lastOp.op = "List" =>
               /\ TargetNow = TargetBefore
               /\ lastOp.apis = TargetBefore.Api

\* an address was added with login type Unknown: it is in the ZF pool, and the
\* OAuth pool, which has a member, is as it was
C16_Witness ==
    /\ lastOp.op = "Add" /\ lastOp.lt = "Unknown"
    /\ zfLB.Api = lastOp.zfLB.Api \o <<lastOp.api>>
    /\ oauthLB.Size > 0 /\ oauthLB = lastOp.oauthLB
    /\ lastOp.api \notin Range(oauthLB.Api)

\* ------------------------------------------------------------------ C17
\* C17: Remove of an address the routed pool does not hold leaves both pools as
\* they were, Api and Size, so List and Pick give what they gave before.
C17_RemoveNonMember ==
    (lastOp.op = "Remove" /\ lastOp.api \notin Range(TargetBefore.Api)) =>
        /\ TargetNow.Api = TargetBefore.Api
        /\ TargetNow.Size = TargetBefore.Size
        /\ OtherNow = OtherBefore
        /\ list(TargetNow) = list(TargetBefore)
        /\ \A n \in PickRange(TargetBefore) : Pick(TargetNow, n) = Pick(TargetBefore, n)

\* Remove of an address that is in neither pool, called on a pool of two
C17_Witness ==
    /\ lastOp.op = "Remove" /\ lastOp.api \notin Range(TargetBefore.Api)
    /\ Len(TargetBefore.Api) = 2
    /\ TargetNow.Api = TargetBefore.Api

\* ------------------------------------------------------------------ C18
\* C18 as stated: whatever Add and Remove calls interleave with it,
\* LoadBalance.Pick returns a nil error only with a non-empty address that is a
\* member of the pool of the login type it returns, and returns no-api-available
\* (with the empty address and Unknown) exactly when it found no flagged pool
\* with a member.
C18_Original ==
    [][ (ppc = "pick" /\ ppc' = "done") =>
            /\ pickRet'.err = "nil" =>
                   /\ pickRet'.api # NoHost
                   /\ pickRet'.api \in Range(PoolOf(pickRet'.lt).Api)
                   /\ \/ pickRet'.lt = "OAUTH" /\ pickArgs.oauthFlag
                      \/ pickRet'.lt = "ZF" /\ pickArgs.zfFlag
            /\ pickRet'.err # "nil" =>
                   pickRet' = [api |-> NoHost, lt |-> "Unknown", err |-> "NoApiAvailable"]
            /\ pickRet'.err # "nil" <=> ~(oauthAvailable \/ zfAvailable)
      ]_vars

\* ------------------------------------------------------------------ C19
\* C19 as stated, for a pool that held each address once before the call: after Add
\* a List snapshot still holds each address at most once; after Remove(a) the
\* address a is not in the List snapshot and Pick does not return it.
C19_Original ==
    NoRepeats(TargetBefore.Api) =>
        /\ lastOp.op = "Add" => NoRepeats(list(TargetNow))
        /\ lastOp.op = "Remove" =>
               /\ lastOp.api \notin Range(list(TargetNow))
               /\ \A n \in PickRange(TargetNow) : Pick(TargetNow, n) # lastOp.api

\* ------------------------------------------------------------------ C20
\* C20: between the locked sections of Pick, list, Add, Remove, ReBalance and
\* isAvailable, in any interleaving, Size is the length of Api in both pools; so
\* whatever fastrand.Intn(Size) returns, Pick indexes inside Api, and Pick returns
\* the empty string exactly when the pool has no member (addresses are non-empty).
C20_SizeIsLen ==
    /\ \A b \in {zfLB, oauthLB} :
           /\ b.Size = Len(b.Api)
           /\ \A n \in PickRange(b) :
                  /\ Pick(b, n) # OutOfRange
                  /\ Pick(b, n) = NoHost <=> b.Api = <<>>
    /\ (ppc = "done" /\ pickRet.err = "nil") => pickRet.api # OutOfRange

\* a pool of two was cut to one by Remove, and a Pick has returned an address
C20_Witness ==
    /\ lastOp.op = "Remove" /\ Len(TargetBefore.Api) = 2 /\ TargetNow.Size = 1
    /\ ppc = "done" /\ pickRet.err = "nil" /\ pickRet.api \in Addr

\* ------------------------------------------------------------------- C8
HedgeQuiescent ==
    /\ dpc = "returned"
    /\ \A i \in Slots : bpc[i] \in {"none", "done"}
    /\ cpc = "done"

\* C8: when every goroutine keeps being scheduled and every PostForm call returns,
\* a hedged Dispatch that has fanned out eventually returns with every branch and
\* the channel-closing goroutine ended (unless a call panics in a build without
\* recover), and a branch holding a result always finds room in the channel.
C8_Terminates ==
    /\ (zfFlag /\ dpc = "consume") ~> (HedgeQuiescent \/ dpc = "crashed")
    /\ [](\A i \in Cands : (zfFlag /\ bpc[i] = "have") => Len(resultCh) < ChanCap(hosts))

\* everything ended although a result was published that nobody will read
C8_Witness ==
    /\ zfFlag /\ HedgeQuiescent /\ winner # 0
    /\ closed /\ resultCh # <<>>

====
